---------------------------- MODULE Spec2Model ----------------------------
(***************************************************************************)
(* Topology validity model of the q-sim network editor.                    *)
(*                                                                         *)
(* State: the canvas, the nodes on it and the connections held by the      *)
(* connection manager; the exercise data, the active lab, the session's    *)
(* event log and what the last call of checkLabCompletion did.             *)
(*                                                                         *)
(* Operations: the canvas becoming ready, creating an unconnected node     *)
(* from the sidebar, a quick-add step (a click on an entry of the menu the *)
(* canvas offers for the hovered node, which calls addConnectedNode), the  *)
(* import of a saved topology, starting a lab, the arrival of a simulation *)
(* event and the lab panel's completion check.  The rule engine            *)
(* getCompatibleNextNodeTypes is a pure function of a node and the         *)
(* connections; the canvas evaluates it in every render to fill the        *)
(* quick-add menu.                                                         *)
(***************************************************************************)
EXTENDS Naturals, Sequences, FiniteSets

VARIABLES
    nodes,        \* Seq(NodeType): nodes[i] is the nodeType of node i
    connections,  \* Seq([from, to]): ConnectionManager.getAllConnections()
    canvasReady,  \* editor?.canvas is defined
    requirements, \* the requirements of the lab in EXERCISES
    activeLab,    \* LabPanel.activeLab: a lab id, NoLab for null
    simulationEventLogs,  \* SocketIOClient.simulationEventLogs.length
    lastCheck,    \* what checkLabCompletion did when last run on this state
    quickAddHelperEnabled,  \* the prop of NetworkCanvas
    hoveredNode,      \* NetworkCanvas.hoveredNode: a node, NoNode for null
    quickAddPosition, \* NetworkCanvas.quickAddPosition != null
    quickAddMenuOpen, \* NetworkCanvas.quickAddMenuOpen
    simulatorActiveLab,   \* QuantumNetworkSimulator.activeLab
    labProgress,          \* QuantumNetworkSimulator.labProgress
    completedLabs,        \* QuantumNetworkSimulator.completedLabs
    panelCompletedLabs,   \* LabPanel.completedLabs
    simulationStateUpdateCount,  \* QuantumNetworkSimulator's update counter
    effectPending,        \* a dependency of the LabPanel effect has changed
    callbackRegistered,   \* onConnectionCallback has been handed the callback
    registerTimer         \* a setTimeout of registerConnectionCallback is due

vars == <<nodes, connections, canvasReady, requirements, activeLab,
          simulationEventLogs, lastCheck, quickAddHelperEnabled, hoveredNode,
          quickAddPosition, quickAddMenuOpen, simulatorActiveLab, labProgress,
          completedLabs, panelCompletedLabs, simulationStateUpdateCount,
          effectPending, callbackRegistered, registerTimer>>

\* The variables of QuantumNetworkSimulator and of the LabPanel effect.
sessionVars == <<simulatorActiveLab, labProgress, completedLabs,
                 panelCompletedLabs, simulationStateUpdateCount,
                 effectPending, callbackRegistered, registerTimer>>

\* The variables of the quick-add overlay.
hoverVars == <<quickAddHelperEnabled, hoveredNode, quickAddPosition,
               quickAddMenuOpen>>

\* The variables of the lab panel and the session.
labVars == <<requirements, activeLab, simulationEventLogs>>

\* ------------------------------------------------------------------ bounds
\* Largest number of nodes the canvas holds in the model.
MaxNodes == 4
\* Largest number of neighbours of the centre node of an imported topology.
MaxImportNeighbors == 2
\* Longest list of required nodes and of required connection pairs of a lab,
\* and the largest canvas the lab checker is run on.
MaxRequired == 2
\* Largest value of the update counter of a session.
MaxUpdates == 2
\* Largest number of simulation events logged in a session; a lab that
\* requires messages requires one fewer, so that the log can fall short of,
\* meet and exceed the requirement.
MaxMessages == 2

\* -------------------------------------------------------------- node types
CLASSICAL_HOST == "CLASSICAL_HOST"
CLASSICAL_ROUTER == "CLASSICAL_ROUTER"
QUANTUM_HOST == "QUANTUM_HOST"
QUANTUM_REPEATER == "QUANTUM_REPEATER"
QUANTUM_ADAPTER == "QUANTUM_ADAPTER"
INTERNET_EXCHANGE == "INTERNET_EXCHANGE"
CLASSIC_TO_QUANTUM_CONVERTER == "CLASSIC_TO_QUANTUM_CONVERTER"
QUANTUM_TO_CLASSIC_CONVERTER == "QUANTUM_TO_CLASSIC_CONVERTER"
ZONE == "ZONE"
CLASSICAL_NETWORK == "CLASSICAL_NETWORK"

\* The node types the canvas component can create (one handler per type).
SimulationNodeType ==
    { CLASSICAL_HOST, CLASSICAL_ROUTER, QUANTUM_HOST, QUANTUM_REPEATER,
      QUANTUM_ADAPTER, INTERNET_EXCHANGE, CLASSIC_TO_QUANTUM_CONVERTER,
      QUANTUM_TO_CLASSIC_CONVERTER, ZONE, CLASSICAL_NETWORK }

\* The five types the rule engine has a case for.
GovernedTypes ==
    { CLASSICAL_HOST, CLASSICAL_ROUTER, QUANTUM_HOST, QUANTUM_ADAPTER,
      QUANTUM_REPEATER }

\* A missing endpoint (metaData.to is optional).
NoNode == 0

NodeIds == 1..Len(nodes)

Range(s) == { s[i] : i \in 1..Len(s) }

\* ------------------------------------------------------------- rule engine
\* getNeighbors in iteration i of its loop over the connections the
\* connection manager holds: the neighbours pushed for connections 1..i, in
\* push order.
RECURSIVE getNeighborsUpTo(_, _, _)
getNeighborsUpTo(node, allConnections, i) ==
    IF i = 0 THEN <<>>
    ELSE LET c == allConnections[i]
             fromSide == IF c.from = node /\ c.to # NoNode THEN <<c.to>> ELSE <<>>
             toSide == IF c.to = node /\ c.from # NoNode THEN <<c.from>> ELSE <<>>
         IN  getNeighborsUpTo(node, allConnections, i - 1)
                 \o fromSide \o toSide

\* getNeighbors that follows a connection only from its from side.
getNeighborsOf_FromOnly(node, allConnections) ==
    LET outgoing == SelectSeq([i \in 1..Len(allConnections) |-> i],
                              LAMBDA i : /\ allConnections[i].from = node
                                         /\ allConnections[i].to # NoNode)
    IN  [j \in 1..Len(outgoing) |-> allConnections[outgoing[j]].to]

\* getNeighbors that counts a connection from the node to itself once.
getNeighborsOf_LoopOnce(node, allConnections) ==
    LET pushed == getNeighborsUpTo(node, allConnections, Len(allConnections))
        loops == Cardinality({ i \in 1..Len(allConnections) :
                                   /\ allConnections[i].from = node
                                   /\ allConnections[i].to = node })
    IN  SelectSeq(pushed, LAMBDA n : n # node) \o [i \in 1..loops |-> node]

\* getNeighbors(node, connectionManager)
getNeighborsOf(node, allConnections) ==
    getNeighborsUpTo(node, allConnections, Len(allConnections))

\* getNeighbors with the connection manager of the canvas.
getNeighbors(node) == getNeighborsOf(node, connections)

isClassicalType(t) == t = CLASSICAL_HOST \/ t = CLASSICAL_ROUTER

isQuantumLinkType(t) == t = QUANTUM_HOST \/ t = QUANTUM_REPEATER

\* const neighborTypes = neighbors.map((n) => n.nodeType)
neighborTypesIn(node, allConnections) ==
    LET neighbors == getNeighborsOf(node, allConnections)
    IN  [i \in 1..Len(neighbors) |-> nodes[neighbors[i]]]

neighborTypesOf(node) == neighborTypesIn(node, connections)

\* caseClassical with a two-port limit like the quantum-side cases have.
caseClassical_PortLimit(degree, neighborTypes) ==
    IF degree >= 2 THEN <<>>
    ELSE <<CLASSICAL_HOST, CLASSICAL_ROUTER, QUANTUM_ADAPTER>>

\* caseClassical that also offers a Quantum Host.
caseClassical_OffersQuantumHost(degree, neighborTypes) ==
    <<CLASSICAL_HOST, CLASSICAL_ROUTER, QUANTUM_ADAPTER, QUANTUM_HOST>>

\* case CLASSICAL_HOST, case CLASSICAL_ROUTER
caseClassical(degree, neighborTypes) ==
    <<CLASSICAL_HOST, CLASSICAL_ROUTER, QUANTUM_ADAPTER>>

\* caseQuantumAdapter without its degree check.
caseQuantumAdapter_NoPortLimit(degree, neighborTypes) ==
    LET hasClassical == \E i \in 1..Len(neighborTypes) :
                            isClassicalType(neighborTypes[i])
        hasQuantum == QUANTUM_HOST \in Range(neighborTypes)
    IN  IF hasClassical /\ ~hasQuantum THEN <<QUANTUM_HOST>>
        ELSE IF hasQuantum /\ ~hasClassical
             THEN <<CLASSICAL_HOST, CLASSICAL_ROUTER>>
             ELSE <<CLASSICAL_HOST, CLASSICAL_ROUTER, QUANTUM_HOST>>

\* caseQuantumAdapter offering the side that is already taken.
caseQuantumAdapter_SidesSwapped(degree, neighborTypes) ==
    IF degree >= 2 THEN <<>>
    ELSE LET hasClassical == \E i \in 1..Len(neighborTypes) :
                                 isClassicalType(neighborTypes[i])
             hasQuantum == QUANTUM_HOST \in Range(neighborTypes)
         IN  IF hasClassical /\ ~hasQuantum
             THEN <<CLASSICAL_HOST, CLASSICAL_ROUTER>>
             ELSE IF hasQuantum /\ ~hasClassical THEN <<QUANTUM_HOST>>
                  ELSE <<CLASSICAL_HOST, CLASSICAL_ROUTER, QUANTUM_HOST>>

\* caseQuantumAdapter whose last return leaves out the Classical Router.
caseQuantumAdapter_NoRouter(degree, neighborTypes) ==
    IF degree >= 2 THEN <<>>
    ELSE LET hasClassical == \E i \in 1..Len(neighborTypes) :
                                 isClassicalType(neighborTypes[i])
             hasQuantum == QUANTUM_HOST \in Range(neighborTypes)
         IN  IF hasClassical /\ ~hasQuantum THEN <<QUANTUM_HOST>>
             ELSE IF hasQuantum /\ ~hasClassical
                  THEN <<CLASSICAL_HOST, CLASSICAL_ROUTER>>
                  ELSE <<CLASSICAL_HOST, QUANTUM_HOST>>

\* caseQuantumAdapter that offers nothing to an adapter whose one neighbour
\* is on neither of its sides.
caseQuantumAdapter_ForeignBlocks(degree, neighborTypes) ==
    IF degree >= 2 THEN <<>>
    ELSE LET hasClassical == \E i \in 1..Len(neighborTypes) :
                                 isClassicalType(neighborTypes[i])
             hasQuantum == QUANTUM_HOST \in Range(neighborTypes)
         IN  IF hasClassical /\ ~hasQuantum THEN <<QUANTUM_HOST>>
             ELSE IF hasQuantum /\ ~hasClassical
                  THEN <<CLASSICAL_HOST, CLASSICAL_ROUTER>>
                  ELSE IF degree = 1 THEN <<>>
                       ELSE <<CLASSICAL_HOST, CLASSICAL_ROUTER, QUANTUM_HOST>>

\* case QUANTUM_ADAPTER
caseQuantumAdapter(degree, neighborTypes) ==
    IF degree >= 2 THEN <<>>
    ELSE LET hasClassical == \E i \in 1..Len(neighborTypes) :
                                 isClassicalType(neighborTypes[i])
             hasQuantum == QUANTUM_HOST \in Range(neighborTypes)
         IN  IF hasClassical /\ ~hasQuantum THEN <<QUANTUM_HOST>>
             ELSE IF hasQuantum /\ ~hasClassical
                  THEN <<CLASSICAL_HOST, CLASSICAL_ROUTER>>
                  ELSE <<CLASSICAL_HOST, CLASSICAL_ROUTER, QUANTUM_HOST>>

\* caseQuantumHost that offers only a Quantum Host to a host that has its
\* adapter.
caseQuantumHost_LinkOnlyHost(degree, neighborTypes) ==
    IF degree >= 2 THEN <<>>
    ELSE LET hasAdapter == QUANTUM_ADAPTER \in Range(neighborTypes)
             hasQuantumLink == \E i \in 1..Len(neighborTypes) :
                                   isQuantumLinkType(neighborTypes[i])
         IN  IF hasAdapter /\ ~hasQuantumLink THEN <<QUANTUM_HOST>>
             ELSE IF hasQuantumLink /\ ~hasAdapter THEN <<QUANTUM_ADAPTER>>
                  ELSE <<QUANTUM_ADAPTER, QUANTUM_HOST, QUANTUM_REPEATER>>

\* caseQuantumHost that keeps offering the adapter once it has one.
caseQuantumHost_AdapterAgain(degree, neighborTypes) ==
    IF degree >= 2 THEN <<>>
    ELSE LET hasAdapter == QUANTUM_ADAPTER \in Range(neighborTypes)
             hasQuantumLink == \E i \in 1..Len(neighborTypes) :
                                   isQuantumLinkType(neighborTypes[i])
         IN  IF hasQuantumLink /\ ~hasAdapter THEN <<QUANTUM_ADAPTER>>
             ELSE <<QUANTUM_ADAPTER, QUANTUM_HOST, QUANTUM_REPEATER>>

\* caseQuantumHost with the degree check off by one (degree > 2).
caseQuantumHost_OffByOne(degree, neighborTypes) ==
    IF degree > 2 THEN <<>>
    ELSE LET hasAdapter == QUANTUM_ADAPTER \in Range(neighborTypes)
             hasQuantumLink == \E i \in 1..Len(neighborTypes) :
                                   isQuantumLinkType(neighborTypes[i])
         IN  IF hasAdapter /\ ~hasQuantumLink
             THEN <<QUANTUM_HOST, QUANTUM_REPEATER>>
             ELSE IF hasQuantumLink /\ ~hasAdapter THEN <<QUANTUM_ADAPTER>>
                  ELSE <<QUANTUM_ADAPTER, QUANTUM_HOST, QUANTUM_REPEATER>>

\* caseQuantumHost that takes only a Quantum Host for a quantum link.
caseQuantumHost_RepeaterNoLink(degree, neighborTypes) ==
    IF degree >= 2 THEN <<>>
    ELSE LET hasAdapter == QUANTUM_ADAPTER \in Range(neighborTypes)
             hasQuantumLink == QUANTUM_HOST \in Range(neighborTypes)
         IN  IF hasAdapter /\ ~hasQuantumLink
             THEN <<QUANTUM_HOST, QUANTUM_REPEATER>>
             ELSE IF hasQuantumLink /\ ~hasAdapter THEN <<QUANTUM_ADAPTER>>
                  ELSE <<QUANTUM_ADAPTER, QUANTUM_HOST, QUANTUM_REPEATER>>

\* case QUANTUM_HOST
caseQuantumHost(degree, neighborTypes) ==
    IF degree >= 2 THEN <<>>
    ELSE LET hasAdapter == QUANTUM_ADAPTER \in Range(neighborTypes)
             hasQuantumLink == \E i \in 1..Len(neighborTypes) :
                                   isQuantumLinkType(neighborTypes[i])
         IN  IF hasAdapter /\ ~hasQuantumLink
             THEN <<QUANTUM_HOST, QUANTUM_REPEATER>>
             ELSE IF hasQuantumLink /\ ~hasAdapter THEN <<QUANTUM_ADAPTER>>
                  ELSE <<QUANTUM_ADAPTER, QUANTUM_HOST, QUANTUM_REPEATER>>

\* caseQuantumRepeater with the degree check off by one (degree > 2).
caseQuantumRepeater_OffByOne(degree, neighborTypes) ==
    IF degree > 2 THEN <<>> ELSE <<QUANTUM_HOST, QUANTUM_REPEATER>>

\* caseQuantumRepeater that offers nothing next to a neighbour from outside
\* the quantum layer.
caseQuantumRepeater_LayerCheck(degree, neighborTypes) ==
    IF degree >= 2 THEN <<>>
    ELSE IF \E i \in 1..Len(neighborTypes) : ~isQuantumLinkType(neighborTypes[i])
         THEN <<>>
         ELSE <<QUANTUM_HOST, QUANTUM_REPEATER>>

\* caseQuantumRepeater that also offers a Quantum Adapter.
caseQuantumRepeater_OffersAdapter(degree, neighborTypes) ==
    IF degree >= 2 THEN <<>>
    ELSE <<QUANTUM_HOST, QUANTUM_REPEATER, QUANTUM_ADAPTER>>

\* case QUANTUM_REPEATER
caseQuantumRepeater(degree, neighborTypes) ==
    IF degree >= 2 THEN <<>> ELSE <<QUANTUM_HOST, QUANTUM_REPEATER>>

\* The default branch falling through to the classical list.
caseDefault_AsClassical(degree, neighborTypes) ==
    <<CLASSICAL_HOST, CLASSICAL_ROUTER, QUANTUM_ADAPTER>>

\* default
caseDefault(degree, neighborTypes) == <<>>

\* getCompatibleNextNodeTypes(node, connectionManager)
getCompatibleNextNodeTypesWith(node, allConnections) ==
    LET neighbors == getNeighborsOf(node, allConnections)
        degree == Len(neighbors)
        neighborTypes == neighborTypesIn(node, allConnections)
        nodeType == nodes[node]
    IN  IF nodeType \in {CLASSICAL_HOST, CLASSICAL_ROUTER}
            THEN caseClassical(degree, neighborTypes)
        ELSE IF nodeType = QUANTUM_ADAPTER
            THEN caseQuantumAdapter(degree, neighborTypes)
        ELSE IF nodeType = QUANTUM_HOST
            THEN caseQuantumHost(degree, neighborTypes)
        ELSE IF nodeType = QUANTUM_REPEATER
            THEN caseQuantumRepeater(degree, neighborTypes)
        ELSE caseDefault(degree, neighborTypes)

\* getCompatibleNextNodeTypes with the connection manager of the canvas.
getCompatibleNextNodeTypes(node) ==
    getCompatibleNextNodeTypesWith(node, connections)

\* ------------------------------------------------------- canvas component
\* activeLab === null.
NoLab == "no-lab"

\* The id of the lab in EXERCISES, and an id EXERCISES does not hold.
KnownLab == "lab-1"

UnknownLab == "unknown-lab"
\* A second lab of EXERCISES, with the same requirements as the first.
SecondLab == "lab-2"
\* The ids of the labs of EXERCISES.
ExerciseIds == {KnownLab, SecondLab}

\* No call of checkLabCompletion has been made on the current state.
NoCheck ==
    [outcome |-> "none", result |-> FALSE, reported |-> FALSE,
     completed |-> 0, total |-> 0]

\* A lab that requires nothing.
EmptyRequirements == [nodes |-> <<>>, connections |-> <<>>, messages |-> 0]

\* The state after the components are constructed, whatever EXERCISES holds:
\* no canvas yet, nothing on it, no lab started, no event logged.
InitCanvas ==
    /\ nodes = <<>>
    /\ connections = <<>>
    /\ canvasReady = FALSE
    /\ activeLab = NoLab
    /\ simulationEventLogs = 0
    /\ lastCheck = NoCheck
    /\ hoveredNode = NoNode
    /\ quickAddPosition = FALSE
    /\ quickAddMenuOpen = FALSE
    /\ simulatorActiveLab = NoLab
    /\ labProgress = 0
    /\ completedLabs = <<>>
    /\ panelCompletedLabs = <<>>
    /\ simulationStateUpdateCount = 0
    /\ effectPending = FALSE
    /\ callbackRegistered = FALSE
    /\ registerTimer = TRUE

\* NetworkCanvas is rendered without a quickAddHelperEnabled prop, which
\* defaults to true.
Init ==
    /\ InitCanvas
    /\ requirements = EmptyRequirements
    /\ quickAddHelperEnabled = TRUE

\* fabricRendered: the first call hands the canvas to the editor (onReady);
\* a later call finds editor.canvas set and returns.
fabricRendered ==
    /\ ~canvasReady
    /\ canvasReady' = TRUE
    /\ UNCHANGED <<nodes, connections>>

\* createNewNode, called by the handleCreate... handlers: one unconnected
\* node of the given type is put on the canvas.
createNewNode(type) ==
    /\ Len(nodes) < MaxNodes
    /\ nodes' = Append(nodes, type)
    /\ UNCHANGED connections

\* ConnectionManager.createConnectionBetween(from, to).
createConnectionBetween(from, to) ==
    connections' = Append(connections, [from |-> from, to |-> to])

\* addConnectedNode(fromNode, newNodeType): a new node of the chosen type and
\* a connection from fromNode to it; an early return without a canvas.
\* When getNewNode yields no node the handler changes nothing, which is a
\* stuttering step.
\* addConnectedNode_TwoConnections also connects the new node back.
addConnectedNode_TwoConnections(fromNode, newNodeType) ==
    IF canvasReady
    THEN /\ nodes' = Append(nodes, newNodeType)
         /\ connections' =
                connections \o <<[from |-> fromNode, to |-> Len(nodes) + 1],
                                 [from |-> Len(nodes) + 1, to |-> fromNode]>>
    ELSE UNCHANGED <<nodes, connections>>

addConnectedNode(fromNode, newNodeType) ==
    IF canvasReady
    THEN /\ nodes' = Append(nodes, newNodeType)
         /\ createConnectionBetween(fromNode, Len(nodes) + 1)
    ELSE UNCHANGED <<nodes, connections>>

\* The render of NetworkCanvas: the menu entries for the hovered node.
\*   connectionManager = canvas ? ConnectionManager.getInstance(canvas) : null
\*   compatibleTypes = hoveredNode && connectionManager ? get...(...) : []
\* compatibleTypesOf that calls the rule engine without a connection
\* manager.
compatibleTypesOf_IgnoresCanvas(hovered, hasCanvas) ==
    IF hovered # NoNode
    THEN getCompatibleNextNodeTypes(hovered)
    ELSE <<>>

compatibleTypesOf(hovered, hasCanvas) ==
    IF hovered # NoNode /\ hasCanvas
    THEN getCompatibleNextNodeTypes(hovered)
    ELSE <<>>

compatibleTypes(hovered) == compatibleTypesOf(hovered, canvasReady)

\* onClick of the menu entry nodeType of the render for hovered node
\* fromNode: addConnectedNode(hoveredNode, nodeType).  Every operation of the
\* model that changes the topology ends in setNodes, hence in a new render,
\* so the entries are those of the current connections.
quickAddClick(fromNode, nodeType) ==
    /\ Len(nodes) < MaxNodes
    /\ nodeType \in Range(compatibleTypes(fromNode))
    /\ addConnectedNode(fromNode, nodeType)

\* The connections of a saved topology whose centre (node 1) has k neighbours
\* (nodes 2..k+1); flip[i] tells which endpoint of connection i is stored as
\* its from side.
savedConnections(k, flip) ==
    [i \in 1..k |-> IF flip[i] THEN [from |-> i + 1, to |-> 1]
                               ELSE [from |-> 1, to |-> i + 1]]

\* importFromJSON(savedTopology, canvas), called once the canvas is rendered:
\* the saved topology becomes the content of the (still empty) canvas.
importFromJSON(savedNodes, savedConns) ==
    /\ nodes' = savedNodes
    /\ connections' = savedConns

\* A change of the canvas leaves the lab panel and the session alone; no
\* completion check has run on the new state yet.
CanvasFrame ==
    /\ UNCHANGED <<labVars, hoverVars, sessionVars>>
    /\ lastCheck' = NoCheck

FabricRendered == fabricRendered /\ CanvasFrame

\* The sidebar handlers act on the rendered canvas.
CreateNewNodeOf(types) ==
    /\ canvasReady
    /\ \E type \in types : createNewNode(type)
    /\ UNCHANGED canvasReady
    /\ CanvasFrame

CreateNewNode == CreateNewNodeOf(SimulationNodeType)

QuickAddClickOf(types) ==
    /\ \E fromNode \in NodeIds, nodeType \in types :
           quickAddClick(fromNode, nodeType)
    /\ UNCHANGED canvasReady
    /\ CanvasFrame

QuickAddClick == QuickAddClickOf(SimulationNodeType)

\* The saved topologies: a centre node with up to MaxImportNeighbors
\* neighbours, every node of one of the given types and every connection
\* stored in either orientation.  Nothing validates a saved topology against
\* the rule engine.
ImportFromJSONOf(types) ==
    /\ canvasReady
    /\ nodes = <<>>
    /\ \E k \in 0..MaxImportNeighbors :
           \E savedNodes \in [1..(k + 1) -> types],
              flip \in [1..k -> BOOLEAN] :
               importFromJSON(savedNodes, savedConnections(k, flip))
    /\ UNCHANGED canvasReady
    /\ CanvasFrame

ImportFromJSON == ImportFromJSONOf(SimulationNodeType)

\* Editing an empty canvas by hand.
Next == FabricRendered \/ CreateNewNode \/ QuickAddClick

Spec == Init /\ [][Next]_vars

\* Opening a saved topology and continuing it with quick-add steps.
NextImport == FabricRendered \/ ImportFromJSON \/ QuickAddClick

SpecImport == Init /\ [][NextImport]_vars

\* ------------------------------------------------------------- lab panel
\* The node types the labs of the model require and their canvases hold.
LabTypes == {CLASSICAL_HOST, CLASSICAL_ROUTER}

\* The endpoint type pairs the labs of the model require.
LabPairs == {<<CLASSICAL_HOST, CLASSICAL_ROUTER>>,
             <<CLASSICAL_ROUTER, CLASSICAL_ROUTER>>}

\* The sequences over S of length at most n.
SeqUpTo(S, n) == UNION { [1..k -> S] : k \in 0..n }

\* The requirements a lab of EXERCISES may have: nodes, connections and the
\* optional messages (0 when absent); at most MaxRequired nodes, at most
\* MaxRequired connections and at most MaxRequired + 1 of the two together.
Requirements ==
    { req \in [nodes : SeqUpTo(LabTypes, MaxRequired),
               connections : SeqUpTo(LabPairs, MaxRequired),
               messages : {0, MaxMessages - 1}] :
          Len(req.nodes) + Len(req.connections) <= MaxRequired + 1 }

\* EXERCISES is fixed when the module is loaded.
InitLab ==
    /\ InitCanvas
    /\ requirements \in Requirements
    /\ quickAddHelperEnabled = TRUE

\* manager.getAllNodes().reduce(...): the number of nodes of each type on
\* the canvas; a type that is not on the canvas has no entry.
nodeCounts ==
    [t \in Range(nodes) |-> Cardinality({ i \in NodeIds : nodes[i] = t })]

\* requirements.nodes.every(...): each required type in turn takes one node
\* of its type out of the counts; the first miss ends the walk.
RECURSIVE nodesExistFrom(_, _)
nodesExistFrom(reqNodes, counts) ==
    IF reqNodes = <<>> THEN TRUE
    ELSE IF Head(reqNodes) \in DOMAIN counts /\ counts[Head(reqNodes)] > 0
         THEN nodesExistFrom(Tail(reqNodes),
                             [counts EXCEPT ![Head(reqNodes)] = @ - 1])
         ELSE FALSE

\* The node check without taking the matched node out of the counts.
nodesExist_NoDecrement(reqNodes) ==
    \A i \in 1..Len(reqNodes) :
        reqNodes[i] \in DOMAIN nodeCounts /\ nodeCounts[reqNodes[i]] > 0

nodesExist(reqNodes) == nodesExistFrom(reqNodes, nodeCounts)

\* The test of one connection in the stored orientation only.
connectionMatches_OneWay(connection, source, target) ==
    /\ nodes[connection.from] = source
    /\ nodes[connection.to] = target

\* The test of one connection against one required pair.
connectionMatches(connection, source, target) ==
    \/ /\ nodes[connection.from] = source
       /\ nodes[connection.to] = target
    \/ /\ nodes[connection.to] = source
       /\ nodes[connection.from] = target

\* The connection check that uses each connection for one required pair only.
connectionsExistIn_Consuming(reqConnections, allConnections) ==
    \E f \in [1..Len(reqConnections) -> 1..Len(allConnections)] :
        /\ \A i, k \in 1..Len(reqConnections) : f[i] = f[k] => i = k
        /\ \A i \in 1..Len(reqConnections) :
               connectionMatches(allConnections[f[i]],
                                 reqConnections[i][1], reqConnections[i][2])

\* requirements.connections.every(... getAllConnections().some(...)).
connectionsExistIn(reqConnections, allConnections) ==
    \A i \in 1..Len(reqConnections) :
        \E j \in 1..Len(allConnections) :
            connectionMatches(allConnections[j],
                              reqConnections[i][1], reqConnections[i][2])

connectionsExist(reqConnections) ==
    connectionsExistIn(reqConnections, connections)

\* The message check that asks for more events than required.
messagesSent_Strict(reqMessages) ==
    reqMessages = 0 \/ simulationEventLogs > reqMessages

\* !requirements.messages || simulationEventLogs.length >= requirements.messages
messagesSent(reqMessages) ==
    reqMessages = 0 \/ simulationEventLogs >= reqMessages

totalRequirements(req) ==
    Len(req.nodes) + Len(req.connections)
        + (IF req.messages # 0 THEN 1 ELSE 0)

\* The fulfilled count that counts the matched items of a category one by
\* one.
fulfilledRequirements_PerItem(req) ==
    Cardinality({ i \in 1..Len(req.nodes) : req.nodes[i] \in Range(nodes) })
        + Cardinality({ i \in 1..Len(req.connections) :
                            connectionsExist(<<req.connections[i]>>) })
        + (IF req.messages # 0 /\ messagesSent(req.messages) THEN 1 ELSE 0)

\* The fulfilled count that adds 1 whenever messagesSent holds, required or
\* not.
fulfilledRequirements_CountsUnrequiredMessages(req) ==
    (IF nodesExist(req.nodes) THEN Len(req.nodes) ELSE 0)
        + (IF connectionsExist(req.connections)
           THEN Len(req.connections) ELSE 0)
        + (IF messagesSent(req.messages) THEN 1 ELSE 0)

fulfilledRequirements(req) ==
    (IF nodesExist(req.nodes) THEN Len(req.nodes) ELSE 0)
        + (IF connectionsExist(req.connections)
           THEN Len(req.connections) ELSE 0)
        + (IF req.messages # 0 /\ messagesSent(req.messages) THEN 1 ELSE 0)

\* The collaborator reads of checkLabCompletion that may raise.
Faults == {"none", "exportToJSON", "getAllNodes", "getAllConnections",
           "SocketIOClient"}

\* The call left with an exception.
Threw ==
    [outcome |-> "threw", result |-> FALSE, reported |-> FALSE,
     completed |-> 0, total |-> 0]

\* The call returned false before the requirements were looked at.
ReturnedEarly ==
    [outcome |-> "returned", result |-> FALSE, reported |-> FALSE,
     completed |-> 0, total |-> 0]

\* checkLabCompletion(labId), with exported telling whether exportToJSON
\* yields a network and fault which collaborator read raises.  The
\* function has no try: an exception leaves it at the read that raised.
\* ConnectionManager.getInstance() is read once per required connection.
checkLabCompletion(labId, exported, fault) ==
    IF labId \notin ExerciseIds THEN ReturnedEarly
    ELSE IF fault = "exportToJSON" THEN Threw
    ELSE IF ~exported THEN ReturnedEarly
    ELSE IF fault = "getAllNodes" THEN Threw
    ELSE IF fault = "getAllConnections" /\ requirements.connections # <<>>
         THEN Threw
    ELSE IF fault = "SocketIOClient" THEN Threw
    ELSE [outcome |-> "returned",
          result |-> /\ nodesExist(requirements.nodes)
                     /\ connectionsExist(requirements.connections)
                     /\ messagesSent(requirements.messages),
          reported |-> TRUE,
          completed |-> fulfilledRequirements(requirements),
          total |-> totalRequirements(requirements)]

\* The Start Lab button of a lab card.
startLab(labId) ==
    /\ activeLab' = labId
    /\ UNCHANGED <<requirements, simulationEventLogs>>

\* onLabCancel.
onLabCancel ==
    /\ activeLab # NoLab
    /\ activeLab' = NoLab
    /\ UNCHANGED <<requirements, simulationEventLogs>>

\* A simulation event arrives and is appended to the session's event log.
receiveSimulationEvent ==
    /\ simulationEventLogs < MaxMessages
    /\ simulationEventLogs' = simulationEventLogs + 1
    /\ UNCHANGED <<requirements, activeLab>>

\* A change of the lab panel or the session leaves the canvas alone; no
\* completion check has run on the new state yet.
LabFrame ==
    /\ UNCHANGED <<nodes, connections, canvasReady, hoverVars, sessionVars>>
    /\ lastCheck' = NoCheck

StartLabOf(labIds) ==
    /\ \E labId \in labIds : startLab(labId)
    /\ LabFrame

StartLab == StartLabOf({KnownLab})

OnLabCancel == onLabCancel /\ LabFrame

ReceiveSimulationEvent == receiveSimulationEvent /\ LabFrame

\* The effect of LabPanel: if (activeLab && checkLabCompletion(activeLab)).
CheckLabCompletion ==
    /\ activeLab # NoLab
    /\ \E exported \in BOOLEAN, fault \in Faults :
           lastCheck' = checkLabCompletion(activeLab, exported, fault)
    /\ UNCHANGED <<nodes, connections, canvasReady, labVars, hoverVars,
                   sessionVars>>

\* The canvases the labs are worked on: at most MaxRequired nodes of the
\* lab types.
LabCreateNewNode ==
    /\ Len(nodes) < MaxRequired
    /\ CreateNewNodeOf(LabTypes)

LabQuickAddClick ==
    /\ Len(nodes) < MaxRequired
    /\ QuickAddClickOf(LabTypes)

\* Working on a lab: editing the canvas, running the simulation, and the
\* completion check.
NextLab ==
    \/ FabricRendered
    \/ LabCreateNewNode
    \/ LabQuickAddClick
    \/ StartLab
    \/ OnLabCancel
    \/ ReceiveSimulationEvent
    \/ CheckLabCompletion

SpecLab == InitLab /\ [][NextLab]_vars

\* ------------------------------------------------------- ill-formed input
\* A nodeType that SimulationNodeType does not have, as a saved topology may
\* hold.
UNRECOGNIZED == "UNRECOGNIZED"

\* The node types of the saved topologies with ill-formed nodes.
GuardTypes == {CLASSICAL_HOST, QUANTUM_ADAPTER, UNRECOGNIZED}

GuardImportFromJSON == ImportFromJSONOf(GuardTypes)

GuardQuickAddClick == QuickAddClickOf(GuardTypes)

\* checkLabCompletion is handed the id of a lab or an id no lab has.
StartAnyLab == StartLabOf({KnownLab, UnknownLab})

\* The rule engine and the lab checker on ill-formed input: a saved topology
\* with nodes of an unrecognized type, and a lab id that EXERCISES does not
\* hold.  The lab of EXERCISES requires nothing, so a check that goes
\* through returns true.
NextGuard ==
    \/ FabricRendered
    \/ GuardImportFromJSON
    \/ GuardQuickAddClick
    \/ StartAnyLab
    \/ CheckLabCompletion

SpecGuard == Init /\ [][NextGuard]_vars

\* ---------------------------------------------------- arbitrary connections
\* The node types of the saved topologies with arbitrary connections.
AnyConnectionTypes == {CLASSICAL_HOST, QUANTUM_ADAPTER, QUANTUM_HOST}

\* A saved topology of up to MaxImportNeighbors nodes and as many
\* connections, each from any node to any node, itself included, or with its
\* to side not set (metaData.to is optional).
ImportAnyConnections ==
    /\ canvasReady
    /\ nodes = <<>>
    /\ \E n \in 1..MaxImportNeighbors, k \in 0..MaxImportNeighbors :
           \E savedNodes \in [1..n -> AnyConnectionTypes],
              savedConns \in [1..k -> [from : 1..n, to : 0..n]] :
               importFromJSON(savedNodes, savedConns)
    /\ UNCHANGED canvasReady
    /\ CanvasFrame

\* Opening a saved topology with arbitrary connections.
NextAnyConnections == FabricRendered \/ ImportAnyConnections

SpecAnyConnections == Init /\ [][NextAnyConnections]_vars

\* ------------------------------------------------------ the quick-add step
\* addConnectedNode called for any node and any node type, before and after
\* the canvas exists: the callback is created with the editor it closes
\* over, so a call may find no canvas.
AddConnectedNode ==
    /\ Len(nodes) < MaxNodes
    /\ \E fromNode \in IF canvasReady THEN 1..Len(nodes) ELSE {1},
          newNodeType \in SimulationNodeType :
           addConnectedNode(fromNode, newNodeType)
    /\ UNCHANGED canvasReady
    /\ CanvasFrame

\* The node types of the sidebar used next to the quick-add step.
SidebarTypes == {CLASSICAL_HOST, QUANTUM_HOST}

NextAddConnected ==
    \/ FabricRendered
    \/ CreateNewNodeOf(SidebarTypes)
    \/ AddConnectedNode

SpecAddConnected == Init /\ [][NextAddConnected]_vars

\* ------------------------------------------------------- quick-add overlay

\* QuickAddClick above is the whole gesture "pointer onto fromNode, menu
\* opened, entry clicked"; the actions below are its steps, with the state
\* the overlay keeps between them.

\* showQuickAddButton of the render: the overlay (button and menu) is in
\* the page exactly when this holds.
showQuickAddButton_IgnoresTypes ==
    /\ quickAddHelperEnabled
    /\ hoveredNode # NoNode
    /\ quickAddPosition

showQuickAddButton ==
    /\ quickAddHelperEnabled
    /\ hoveredNode # NoNode
    /\ quickAddPosition
    /\ Len(compatibleTypes(hoveredNode)) > 0

\* updateQuickAddPosition(): null without canvas, node or container or with
\* an unusable viewport transform, else a position.  known is whether the
\* container and the transform are usable.
updateQuickAddPosition(node, known) ==
    quickAddPosition' = (canvasReady /\ node # NoNode /\ known)

\* The effect on [hoveredNode, quickAddHelperEnabled]: position null when
\* nothing is hovered or the helper is off, else updateQuickAddPosition().
positionEffect(node, known) ==
    IF node = NoNode \/ ~quickAddHelperEnabled
    THEN quickAddPosition' = FALSE
    ELSE updateQuickAddPosition(node, known)

\* canvas.on("mouse:move"): setHoveredNode(target) for a node under the
\* pointer, setHoveredNode(null) otherwise; then the position effect.
mouseMove(target, known) ==
    /\ canvasReady
    /\ hoveredNode' = target
    /\ positionEffect(target, known)
    /\ UNCHANGED quickAddMenuOpen

\* canvas "after:render" while a node is hovered and the helper is on.
afterRender(known) ==
    /\ canvasReady
    /\ hoveredNode # NoNode
    /\ quickAddHelperEnabled
    /\ updateQuickAddPosition(hoveredNode, known)
    /\ UNCHANGED <<hoveredNode, quickAddMenuOpen>>

\* onPointerLeave of the overlay: hoveredNode is kept while the menu is open.
onPointerLeave ==
    /\ showQuickAddButton
    /\ IF quickAddMenuOpen
       THEN UNCHANGED <<hoveredNode, quickAddPosition>>
       ELSE hoveredNode' = NoNode /\ positionEffect(NoNode, FALSE)
    /\ UNCHANGED quickAddMenuOpen

\* onOpenChange of the dropdown, which exists only inside the overlay.
onOpenChange(open) ==
    /\ showQuickAddButton
    /\ quickAddMenuOpen' = open
    /\ UNCHANGED <<hoveredNode, quickAddPosition>>

\* The document mousedown listener installed while the menu is open.
onMouseDown ==
    /\ quickAddMenuOpen
    /\ quickAddMenuOpen' = FALSE
    /\ UNCHANGED <<hoveredNode, quickAddPosition>>

\* onClick of a DropdownMenuItem: the items are compatibleTypes.map(...) of
\* an overlay that is rendered under showQuickAddButton with the menu open.
menuItemClick(nodeType, known) ==
    /\ showQuickAddButton
    /\ quickAddMenuOpen
    /\ nodeType \in Range(compatibleTypes(hoveredNode))
    /\ Len(nodes) < MaxNodes
    /\ IF hoveredNode # NoNode
       THEN /\ addConnectedNode(hoveredNode, nodeType)
            /\ quickAddMenuOpen' = FALSE
       ELSE UNCHANGED <<nodes, connections, quickAddMenuOpen>>
    /\ updateQuickAddPosition(hoveredNode, known)
    /\ UNCHANGED hoveredNode

\* A change of the overlay leaves the topology and the lab panel alone.
HoverFrame ==
    /\ UNCHANGED <<nodes, connections, canvasReady, labVars,
                   quickAddHelperEnabled, sessionVars>>
    /\ lastCheck' = NoCheck

MouseMove ==
    /\ \E target \in (1..Len(nodes)) \cup {NoNode}, known \in BOOLEAN :
           mouseMove(target, known)
    /\ HoverFrame

AfterRender == (\E known \in BOOLEAN : afterRender(known)) /\ HoverFrame

OnPointerLeave == onPointerLeave /\ HoverFrame

OnOpenChange == (\E open \in BOOLEAN : onOpenChange(open)) /\ HoverFrame

OnMouseDown == onMouseDown /\ HoverFrame

MenuItemClick ==
    /\ \E nodeType \in SimulationNodeType, known \in BOOLEAN :
           menuItemClick(nodeType, known)
    /\ UNCHANGED <<canvasReady, labVars, quickAddHelperEnabled, sessionVars>>
    /\ lastCheck' = NoCheck

\* The node types of the sidebar used with the overlay.
HoverTypes == {CLASSICAL_HOST, QUANTUM_ADAPTER, QUANTUM_HOST}

\* The helper may be switched off by the parent.
InitHover ==
    /\ InitCanvas
    /\ requirements = EmptyRequirements
    /\ quickAddHelperEnabled \in BOOLEAN

NextHover ==
    \/ FabricRendered
    \/ CreateNewNodeOf(HoverTypes)
    \/ MouseMove
    \/ AfterRender
    \/ OnPointerLeave
    \/ OnOpenChange
    \/ OnMouseDown
    \/ MenuItemClick

SpecHover == InitHover /\ [][NextHover]_vars

\* --------------------------------------------------- the simulator session
\* QuantumNetworkSimulator (agent-declaration.tsx) around the canvas and the
\* lab panel.  It is mounted with the registration timer set (the effect
\* with setTimeout(registerConnectionCallback, 5000)).  TopBar hands
\* simulationStateUpdateCount to LabPanel as simulationState, and the
\* connection manager calls the registered callback for every connection
\* it creates.

\* labProgress after 0 / 0 * 100, a value that is no percentage.
NaN == 1000

\* triggerLabCheck(): the counter moves only while the simulator holds an
\* active lab; a new count is a new simulationState for the LabPanel effect.
triggerLabCheck ==
    IF simulatorActiveLab # NoLab
    THEN /\ simulationStateUpdateCount' = simulationStateUpdateCount + 1
         /\ effectPending' = TRUE
    ELSE UNCHANGED <<simulationStateUpdateCount, effectPending>>

\* The callback handed to onConnectionCallback, run by the connection
\* manager when it has created a connection, if one was handed over.
connectionCallback ==
    IF callbackRegistered
    THEN triggerLabCheck
    ELSE UNCHANGED <<simulationStateUpdateCount, effectPending>>

\* registerConnectionCallback(), run by a timer: ConnectionManager
\* .getInstance() raises until the canvas has made the instance, and the
\* catch sets the next timer.
registerConnectionCallback_NoRetry ==
    /\ registerTimer
    /\ registerTimer' = FALSE
    /\ callbackRegistered' = canvasReady

registerConnectionCallback ==
    /\ registerTimer
    /\ IF canvasReady
       THEN callbackRegistered' = TRUE /\ registerTimer' = FALSE
       ELSE UNCHANGED <<callbackRegistered, registerTimer>>

\* handleCreateNode(actionType): the canvas handler, then triggerLabCheck().
handleCreateNode(type) ==
    /\ canvasReady
    /\ createNewNode(type)
    /\ triggerLabCheck

\* The quick-add entry of the canvas of the simulator, which is rendered
\* without onQuickAddNodeAdded: addConnectedNode, inside it the connection
\* manager's callback, and no call of triggerLabCheck by the entry.
simulatorQuickAdd(fromNode, nodeType) ==
    /\ quickAddClick(fromNode, nodeType)
    /\ connectionCallback

\* handleSendMessage: triggerLabCheck() after the command was sent.
handleSendMessage == triggerLabCheck

\* handleStartLab(labId).
handleStartLab(labId) ==
    /\ simulatorActiveLab' = labId
    /\ labProgress' = 0

\* handleCompleteLab(): nothing without an active lab or for an id that
\* EXERCISES does not hold.
handleCompleteLab_KeepsActive ==
    IF simulatorActiveLab = NoLab \/ simulatorActiveLab \notin ExerciseIds
    THEN UNCHANGED <<completedLabs, simulatorActiveLab>>
    ELSE /\ completedLabs' =
                IF simulatorActiveLab \in Range(completedLabs)
                THEN completedLabs
                ELSE Append(completedLabs, simulatorActiveLab)
         /\ UNCHANGED simulatorActiveLab

handleCompleteLab ==
    IF simulatorActiveLab = NoLab \/ simulatorActiveLab \notin ExerciseIds
    THEN UNCHANGED <<completedLabs, simulatorActiveLab>>
    ELSE /\ completedLabs' =
                IF simulatorActiveLab \in Range(completedLabs)
                THEN completedLabs
                ELSE Append(completedLabs, simulatorActiveLab)
         /\ simulatorActiveLab' = NoLab

\* completed / total * 100.
percentage(completed, total) ==
    IF total = 0 THEN NaN ELSE (completed * 100) \div total

\* handleLabProgressUpdate(completed, total): setLabProgress, then
\* handleCompleteLab() when the two are equal, whose setLabProgress(0) is
\* the later of the two updates.
handleLabProgressUpdate(completed, total) ==
    IF completed = total
    THEN /\ handleCompleteLab
         /\ labProgress' =
                IF simulatorActiveLab \in ExerciseIds
                THEN 0 ELSE percentage(completed, total)
    ELSE /\ labProgress' = percentage(completed, total)
         /\ UNCHANGED <<completedLabs, simulatorActiveLab>>

\* The effect of LabPanel on [simulationState, activeLab, completedLabs]:
\* the check, which reports to handleLabProgressUpdate, and the panel's own
\* list of completed labs, a change of which makes the effect due again.
labPanelEffect(exported) ==
    /\ effectPending
    /\ IF activeLab = NoLab
       THEN /\ lastCheck' = NoCheck
            /\ effectPending' = FALSE
            /\ UNCHANGED <<labProgress, completedLabs, simulatorActiveLab,
                           panelCompletedLabs>>
       ELSE LET check == checkLabCompletion(activeLab, exported, "none")
            IN  /\ lastCheck' = check
                /\ IF check.reported
                   THEN handleLabProgressUpdate(check.completed, check.total)
                   ELSE UNCHANGED <<labProgress, completedLabs,
                                    simulatorActiveLab>>
                /\ IF check.result /\ activeLab \notin Range(panelCompletedLabs)
                   THEN /\ panelCompletedLabs' =
                               Append(panelCompletedLabs, activeLab)
                        /\ effectPending' = TRUE
                   ELSE /\ UNCHANGED panelCompletedLabs
                        /\ effectPending' = FALSE

\* The Start Lab button, shown for a lab that the panel holds neither as
\* completed nor as active: setActiveLab(lab.id) and onStartLab(lab.id).
startLabButton(labId) ==
    /\ labId \notin Range(panelCompletedLabs)
    /\ activeLab # labId
    /\ startLab(labId)
    /\ handleStartLab(labId)
    /\ effectPending' = TRUE

\* The Cancel Lab button: onLabCancel(), of which the simulator hears
\* nothing.
cancelLabButton ==
    /\ onLabCancel
    /\ effectPending' = TRUE

\* The canvas of a session holds at most this many nodes.
MaxSessionNodes == MaxRequired

HandleCreateNode ==
    /\ Len(nodes) < MaxSessionNodes
    /\ simulationStateUpdateCount < MaxUpdates
    /\ \E type \in LabTypes : handleCreateNode(type)
    /\ lastCheck' = NoCheck
    /\ UNCHANGED <<canvasReady, labVars, hoverVars, simulatorActiveLab,
                   labProgress, completedLabs, panelCompletedLabs,
                   callbackRegistered, registerTimer>>

SimulatorQuickAdd ==
    /\ Len(nodes) < MaxSessionNodes
    /\ simulationStateUpdateCount < MaxUpdates
    /\ \E fromNode \in NodeIds, nodeType \in LabTypes :
           simulatorQuickAdd(fromNode, nodeType)
    /\ lastCheck' = NoCheck
    /\ UNCHANGED <<canvasReady, labVars, hoverVars, simulatorActiveLab,
                   labProgress, completedLabs, panelCompletedLabs,
                   callbackRegistered, registerTimer>>

HandleSendMessage ==
    /\ simulationStateUpdateCount < MaxUpdates
    /\ handleSendMessage
    /\ UNCHANGED <<nodes, connections, canvasReady, labVars, hoverVars,
                   lastCheck, simulatorActiveLab, labProgress, completedLabs,
                   panelCompletedLabs, callbackRegistered, registerTimer>>

RegisterConnectionCallback ==
    /\ registerConnectionCallback
    /\ UNCHANGED <<nodes, connections, canvasReady, labVars, hoverVars,
                   lastCheck, simulatorActiveLab, labProgress, completedLabs,
                   panelCompletedLabs, simulationStateUpdateCount,
                   effectPending>>

StartLabButton ==
    /\ \E labId \in ExerciseIds : startLabButton(labId)
    /\ lastCheck' = NoCheck
    /\ UNCHANGED <<nodes, connections, canvasReady, hoverVars, completedLabs,
                   panelCompletedLabs, simulationStateUpdateCount,
                   callbackRegistered, registerTimer>>

CancelLabButton ==
    /\ cancelLabButton
    /\ lastCheck' = NoCheck
    /\ UNCHANGED <<nodes, connections, canvasReady, hoverVars,
                   simulatorActiveLab, labProgress, completedLabs,
                   panelCompletedLabs, simulationStateUpdateCount,
                   callbackRegistered, registerTimer>>

LabPanelEffect ==
    /\ \E exported \in BOOLEAN : labPanelEffect(exported)
    /\ UNCHANGED <<nodes, connections, canvasReady, labVars, hoverVars,
                   simulationStateUpdateCount, callbackRegistered,
                   registerTimer>>

\* The labs of a session: no requirement, nodes only, and nodes, a
\* connection and messages.
SessionRequirements ==
    { EmptyRequirements,
      [nodes |-> <<CLASSICAL_HOST>>, connections |-> <<>>, messages |-> 0],
      [nodes |-> <<CLASSICAL_HOST, CLASSICAL_ROUTER>>,
       connections |-> << <<CLASSICAL_HOST, CLASSICAL_ROUTER>> >>,
       messages |-> MaxMessages - 1] }

InitSession ==
    /\ InitCanvas
    /\ requirements \in SessionRequirements
    /\ quickAddHelperEnabled = TRUE

NextSession ==
    \/ FabricRendered
    \/ HandleCreateNode
    \/ SimulatorQuickAdd
    \/ HandleSendMessage
    \/ ReceiveSimulationEvent
    \/ RegisterConnectionCallback
    \/ StartLabButton
    \/ CancelLabButton
    \/ LabPanelEffect

SpecSession == InitSession /\ [][NextSession]_vars

\* The session with the lab of no requirement and without the LabPanel
\* effect: what the registration of the connection callback and its
\* callers do.
InitRegister ==
    /\ InitCanvas
    /\ requirements = EmptyRequirements
    /\ quickAddHelperEnabled = TRUE

NextRegister ==
    \/ FabricRendered
    \/ HandleCreateNode
    \/ SimulatorQuickAdd
    \/ HandleSendMessage
    \/ StartLabButton
    \/ CancelLabButton
    \/ RegisterConnectionCallback

\* A timer that is due fires: the browser's event loop runs every timeout
\* callback.  Nothing is assumed about when the canvas renders.
SpecRegisterFair ==
    /\ InitRegister
    /\ [][NextRegister]_vars
    /\ WF_vars(RegisterConnectionCallback)

\* ------------------------------------------------------------ properties
\* Number of entries of the type list ts that lie in the set of types S.
CountIn(ts, S) == Cardinality({ i \in 1..Len(ts) : ts[i] \in S })

NodesOfType(S) == { x \in NodeIds : nodes[x] \in S }

\* The set of types a node is offered.
Offered(x) == Range(getCompatibleNextNodeTypes(x))

ClassicalTypes == {CLASSICAL_HOST, CLASSICAL_ROUTER}

QuantumLinkTypes == {QUANTUM_HOST, QUANTUM_REPEATER}

\* C1: on a canvas edited from empty by node creation and quick-add steps,
\* every Quantum Adapter has at most 2 neighbours, at most one of them a
\* Classical Host or Classical Router and at most one a Quantum Host.
C1_AdapterPorts ==
    \A x \in NodesOfType({QUANTUM_ADAPTER}) :
        /\ Len(getNeighbors(x)) <= 2
        /\ CountIn(neighborTypesOf(x), ClassicalTypes) <= 1
        /\ CountIn(neighborTypesOf(x), {QUANTUM_HOST}) <= 1

\* An adapter that has used both ports (one classical, one Quantum Host
\* neighbour) while the canvas still has room for a further quick-add.
C1_Witness ==
    /\ Len(nodes) < MaxNodes
    /\ \E x \in NodesOfType({QUANTUM_ADAPTER}) :
           /\ CountIn(neighborTypesOf(x), ClassicalTypes) = 1
           /\ CountIn(neighborTypesOf(x), {QUANTUM_HOST}) = 1

\* C2: on a canvas edited from empty by node creation and quick-add steps,
\* every Quantum Host has at most 2 neighbours, at most one of them a Quantum
\* Adapter and at most one a Quantum Host or Quantum Repeater.
C2_QuantumHostPorts ==
    \A x \in NodesOfType({QUANTUM_HOST}) :
        /\ Len(getNeighbors(x)) <= 2
        /\ CountIn(neighborTypesOf(x), {QUANTUM_ADAPTER}) <= 1
        /\ CountIn(neighborTypesOf(x), QuantumLinkTypes) <= 1

\* A Quantum Host that has used both ports (one adapter, one quantum link)
\* while the canvas still has room for a further quick-add.
C2_Witness ==
    /\ Len(nodes) < MaxNodes
    /\ \E x \in NodesOfType({QUANTUM_HOST}) :
           /\ CountIn(neighborTypesOf(x), {QUANTUM_ADAPTER}) = 1
           /\ CountIn(neighborTypesOf(x), QuantumLinkTypes) = 1

\* C3: on a canvas edited from empty by node creation and quick-add steps,
\* every Quantum Repeater has at most 2 neighbours and all of them are
\* Quantum Hosts or Quantum Repeaters.
C3_RepeaterPorts ==
    \A x \in NodesOfType({QUANTUM_REPEATER}) :
        /\ Len(getNeighbors(x)) <= 2
        /\ Range(neighborTypesOf(x)) \subseteq QuantumLinkTypes

\* A Quantum Repeater with two neighbours while the canvas still has room for
\* a further quick-add.
C3_Witness ==
    /\ Len(nodes) < MaxNodes
    /\ \E x \in NodesOfType({QUANTUM_REPEATER}) : Len(getNeighbors(x)) = 2

\* The three governed types with a two-port check.
TwoPortTypes == {QUANTUM_HOST, QUANTUM_ADAPTER, QUANTUM_REPEATER}

\* C4 as stated: every node of one of the five governed types that has
\* degree 2 is offered nothing.
C4_Original ==
    \A x \in NodesOfType(GovernedTypes) :
        Len(getNeighbors(x)) = 2 => getCompatibleNextNodeTypes(x) = <<>>

\* C4 amended: every Quantum Host, Quantum Adapter or Quantum Repeater that
\* has degree 2 is offered nothing, whatever the types of its neighbours.
C4_TwoPortTypesAtDegree2 ==
    \A x \in NodesOfType(TwoPortTypes) :
        Len(getNeighbors(x)) = 2 => getCompatibleNextNodeTypes(x) = <<>>

\* A Quantum Host of degree 2 whose two neighbours are of one class the rule
\* engine would never give it (two classical nodes).
C4_Witness ==
    \E x \in NodesOfType({QUANTUM_HOST}) :
        /\ Len(getNeighbors(x)) = 2
        /\ CountIn(neighborTypesOf(x), ClassicalTypes) = 2

\* C5: a Quantum Adapter with exactly one neighbour is offered exactly
\* {Quantum Host} when that neighbour is a Classical Host or Classical
\* Router, and exactly {Classical Host, Classical Router} when it is a
\* Quantum Host.
C5_AdapterMissingSide ==
    \A x \in NodesOfType({QUANTUM_ADAPTER}) :
        Len(getNeighbors(x)) = 1 =>
            /\ neighborTypesOf(x)[1] \in ClassicalTypes =>
                   getCompatibleNextNodeTypes(x) = <<QUANTUM_HOST>>
            /\ neighborTypesOf(x)[1] = QUANTUM_HOST =>
                   /\ Offered(x) = {CLASSICAL_HOST, CLASSICAL_ROUTER}
                   /\ Len(getCompatibleNextNodeTypes(x)) = 2

\* Two adapters with one neighbour each: one next to a classical node, one
\* next to a Quantum Host.
C5_Witness ==
    \E x, y \in NodesOfType({QUANTUM_ADAPTER}) :
        /\ Len(getNeighbors(x)) = 1
        /\ neighborTypesOf(x)[1] \in ClassicalTypes
        /\ Len(getNeighbors(y)) = 1
        /\ neighborTypesOf(y)[1] = QUANTUM_HOST

\* C6: a Quantum Adapter with no neighbours is offered exactly
\* {Classical Host, Classical Router, Quantum Host}.
C6_AdapterUnconnected ==
    \A x \in NodesOfType({QUANTUM_ADAPTER}) :
        Len(getNeighbors(x)) = 0 =>
            /\ Offered(x) = {CLASSICAL_HOST, CLASSICAL_ROUTER, QUANTUM_HOST}
            /\ Len(getCompatibleNextNodeTypes(x)) = 3

\* An adapter without connections on the canvas.
C6_Witness ==
    \E x \in NodesOfType({QUANTUM_ADAPTER}) : Len(getNeighbors(x)) = 0

\* C7: a Quantum Host with degree below 2 is offered exactly {Quantum Host,
\* Quantum Repeater} when its only neighbour is a Quantum Adapter, exactly
\* {Quantum Adapter} when its only neighbour is a Quantum Host or Quantum
\* Repeater, and exactly {Quantum Adapter, Quantum Host, Quantum Repeater}
\* when it has no neighbour.
C7_QuantumHostOffers ==
    \A x \in NodesOfType({QUANTUM_HOST}) :
        /\ Len(getNeighbors(x)) = 0 =>
               /\ Offered(x) = {QUANTUM_ADAPTER, QUANTUM_HOST, QUANTUM_REPEATER}
               /\ Len(getCompatibleNextNodeTypes(x)) = 3
        /\ Len(getNeighbors(x)) = 1 =>
               /\ neighborTypesOf(x)[1] = QUANTUM_ADAPTER =>
                      /\ Offered(x) = {QUANTUM_HOST, QUANTUM_REPEATER}
                      /\ Len(getCompatibleNextNodeTypes(x)) = 2
               /\ neighborTypesOf(x)[1] \in QuantumLinkTypes =>
                      getCompatibleNextNodeTypes(x) = <<QUANTUM_ADAPTER>>

\* Two Quantum Hosts with one neighbour each: one next to an adapter, one
\* next to a Quantum Host or Quantum Repeater.
C7_Witness ==
    \E x, y \in NodesOfType({QUANTUM_HOST}) :
        /\ Len(getNeighbors(x)) = 1 /\ neighborTypesOf(x)[1] = QUANTUM_ADAPTER
        /\ Len(getNeighbors(y)) = 1 /\ neighborTypesOf(y)[1] \in QuantumLinkTypes

\* C8: a Quantum Repeater with 0 or 1 neighbours is offered exactly
\* {Quantum Host, Quantum Repeater}, whatever the type of the neighbour.
C8_RepeaterOffers ==
    \A x \in NodesOfType({QUANTUM_REPEATER}) :
        Len(getNeighbors(x)) <= 1 =>
            /\ Offered(x) = {QUANTUM_HOST, QUANTUM_REPEATER}
            /\ Len(getCompatibleNextNodeTypes(x)) = 2

\* A Quantum Repeater whose only neighbour is outside the quantum layer.
C8_Witness ==
    \E x \in NodesOfType({QUANTUM_REPEATER}) :
        /\ Len(getNeighbors(x)) = 1
        /\ neighborTypesOf(x)[1] \notin QuantumLinkTypes

\* C9: a Classical Host or Classical Router is offered exactly
\* {Classical Host, Classical Router, Quantum Adapter} in every topology,
\* whatever its degree and neighbours.
C9_ClassicalOffers ==
    \A x \in NodesOfType(ClassicalTypes) :
        /\ Offered(x) = {CLASSICAL_HOST, CLASSICAL_ROUTER, QUANTUM_ADAPTER}
        /\ Len(getCompatibleNextNodeTypes(x)) = 3

\* A classical node with three neighbours, one of them a Quantum Repeater.
C9_Witness ==
    \E x \in NodesOfType(ClassicalTypes) :
        /\ Len(getNeighbors(x)) = 3
        /\ QUANTUM_REPEATER \in Range(neighborTypesOf(x))

\* C10: a node whose type is not one of the five governed types is offered
\* nothing in every topology.
C10_OtherTypesOfferNothing ==
    \A x \in NodeIds :
        nodes[x] \notin GovernedTypes => getCompatibleNextNodeTypes(x) = <<>>

\* A connected Zone, Internet Exchange and converter on one canvas.
C10_Witness ==
    /\ \E x \in NodesOfType({ZONE}) : Len(getNeighbors(x)) > 0
    /\ \E x \in NodesOfType({INTERNET_EXCHANGE}) : Len(getNeighbors(x)) > 0
    /\ \E x \in NodesOfType({CLASSIC_TO_QUANTUM_CONVERTER,
                             QUANTUM_TO_CLASSIC_CONVERTER}) :
           Len(getNeighbors(x)) > 0

\* The topology of one Quantum Adapter a connected to one Classical Host and
\* nothing else.
AdapterWithHostOnly(a) ==
    /\ Len(nodes) = 2
    /\ Len(connections) = 1
    /\ a \in NodeIds
    /\ nodes[a] = QUANTUM_ADAPTER
    /\ nodes[3 - a] = CLASSICAL_HOST
    /\ getNeighbors(a) = <<3 - a>>

\* The step is the quick-add that connects a to a new Quantum Host (node 3).
QuickAddsQuantumHostTo(a) ==
    /\ nodes' = Append(nodes, QUANTUM_HOST)
    /\ connections' = Append(connections, [from |-> a, to |-> 3])

\* C11: in a topology of only one Quantum Adapter A connected to one
\* Classical Host, A is offered exactly Quantum Host; once the quick-add has
\* connected A to a new Quantum Host Q, A is offered nothing and Q is offered
\* exactly Quantum Host and Quantum Repeater.
C11_AdapterThenQuantumHost ==
    /\ [](\A a \in 1..2 :
              AdapterWithHostOnly(a)
                  => getCompatibleNextNodeTypes(a) = <<QUANTUM_HOST>>)
    /\ [][\A a \in 1..2 :
              AdapterWithHostOnly(a) /\ QuickAddsQuantumHostTo(a)
                  => /\ getCompatibleNextNodeTypes(a)' = <<>>
                     /\ Range(getCompatibleNextNodeTypes(3))'
                            = {QUANTUM_HOST, QUANTUM_REPEATER}
                     /\ Len(getCompatibleNextNodeTypes(3))' = 2]_vars

\* The state right after that quick-add: the adapter between its Classical
\* Host and the new Quantum Host, whose only connection is the one from the
\* adapter.
C11_Witness ==
    /\ Len(nodes) = 3
    /\ Len(connections) = 2
    /\ \E a \in 1..2 :
           /\ nodes[a] = QUANTUM_ADAPTER
           /\ nodes[3 - a] = CLASSICAL_HOST
           /\ nodes[3] = QUANTUM_HOST
           /\ connections[2] = [from |-> a, to |-> 3]
           /\ Range(getNeighbors(a)) = {3 - a, 3}

\* What a Quantum Adapter or Quantum Host of type t is offered at degree 0.
FullSet(t) ==
    IF t = QUANTUM_ADAPTER
    THEN {CLASSICAL_HOST, CLASSICAL_ROUTER, QUANTUM_HOST}
    ELSE {QUANTUM_ADAPTER, QUANTUM_HOST, QUANTUM_REPEATER}

\* The two sides of a node of type t, and the side a neighbour type is on
\* (empty for a type on neither side).
SidesOf(t) ==
    IF t = QUANTUM_ADAPTER THEN {ClassicalTypes, {QUANTUM_HOST}}
                           ELSE {{QUANTUM_ADAPTER}, QuantumLinkTypes}

SideOf(t, neighborType) ==
    UNION { side \in SidesOf(t) : neighborType \in side }

\* C12 as stated: a Quantum Adapter or Quantum Host with exactly one
\* neighbour, of any type, is offered only the missing side and never the
\* full degree-0 set.
C12_Original ==
    \A x \in NodesOfType({QUANTUM_ADAPTER, QUANTUM_HOST}) :
        Len(getNeighbors(x)) = 1 => Offered(x) # FullSet(nodes[x])

\* C12: a Quantum Adapter or Quantum Host with exactly one neighbour is
\* offered only the missing side when that neighbour is on one of its two
\* sides, and the full degree-0 set when the neighbour is of any other type.
C12_MissingSideUnlessForeign ==
    \A x \in NodesOfType({QUANTUM_ADAPTER, QUANTUM_HOST}) :
        Len(getNeighbors(x)) = 1 =>
            Offered(x) = FullSet(nodes[x])
                             \ SideOf(nodes[x], neighborTypesOf(x)[1])

\* A Quantum Adapter whose one neighbour is a Quantum Repeater, and a Quantum
\* Host whose one neighbour is a Quantum Repeater.
C12_Witness ==
    /\ \E x \in NodesOfType({QUANTUM_ADAPTER}) :
           neighborTypesOf(x) = <<QUANTUM_REPEATER>>
    /\ \E x \in NodesOfType({QUANTUM_HOST}) :
           neighborTypesOf(x) = <<QUANTUM_REPEATER>>

\* The required node types are covered by the canvas, type by type.
NodesCovered(reqNodes) ==
    \A t \in Range(reqNodes) : CountIn(reqNodes, {t}) <= CountIn(nodes, {t})

\* s and t list the same types the same number of times.
SameMultiset(s, t) ==
    /\ Len(s) = Len(t)
    /\ \A x \in Range(s) \cup Range(t) : CountIn(s, {x}) = CountIn(t, {x})

\* The last call of checkLabCompletion went through all requirements.
Checked == lastCheck.outcome = "returned" /\ lastCheck.reported

\* C14: the node requirement of a lab is satisfied exactly when every type
\* is required at most as often as the canvas holds nodes of it, in whatever
\* order the required types are listed; a check of a lab that requires only
\* nodes returns that.
C14_NodeRequirement ==
    /\ nodesExist(requirements.nodes) <=> NodesCovered(requirements.nodes)
    /\ \A reordered \in [1..Len(requirements.nodes) -> LabTypes] :
           SameMultiset(reordered, requirements.nodes)
               => nodesExist(reordered) = nodesExist(requirements.nodes)
    /\ (/\ Checked
        /\ requirements.connections = <<>>
        /\ requirements.messages = 0)
           => lastCheck.result = NodesCovered(requirements.nodes)

\* A checked lab that requires the same type twice on a canvas that holds
\* one node of it and one of another type.
C14_Witness ==
    /\ Checked
    /\ requirements.connections = <<>>
    /\ requirements.messages = 0
    /\ Len(requirements.nodes) = 2
    /\ requirements.nodes[1] = requirements.nodes[2]
    /\ Len(nodes) = 2
    /\ CountIn(nodes, {requirements.nodes[1]}) = 1
    /\ ~lastCheck.result

\* Some connection joins a node of type a and a node of type b.
Joined(a, b) ==
    \E j \in 1..Len(connections) :
        {nodes[connections[j].from], nodes[connections[j].to]} = {a, b}

\* The connections with connection j stored the other way round.
Swapped(j) ==
    [connections EXCEPT ![j] = [from |-> connections[j].to,
                                to |-> connections[j].from]]

\* C15: a required pair (A, B) is satisfied exactly when some connection
\* joins a node of type A and a node of type B, whichever of the two is its
\* from side; storing any connection the other way round changes the result
\* of no lab; a check of a lab that requires only one pair returns that.
C15_ConnectionRequirement ==
    /\ \A a \in LabTypes, b \in LabTypes :
           connectionsExist(<<(<<a, b>>)>>) <=> Joined(a, b)
    /\ \A j \in 1..Len(connections) :
           connectionsExistIn(requirements.connections, Swapped(j))
               = connectionsExist(requirements.connections)
    /\ (/\ Checked
        /\ requirements.nodes = <<>>
        /\ requirements.messages = 0
        /\ Len(requirements.connections) = 1)
           => lastCheck.result = Joined(requirements.connections[1][1],
                                        requirements.connections[1][2])

\* A checked lab that requires the pair (Classical Host, Classical Router),
\* met by a connection stored from the router to the host.
C15_Witness ==
    /\ Checked
    /\ requirements.nodes = <<>>
    /\ requirements.messages = 0
    /\ requirements.connections = <<(<<CLASSICAL_HOST, CLASSICAL_ROUTER>>)>>
    /\ Len(connections) = 1
    /\ nodes[connections[1].from] = CLASSICAL_ROUTER
    /\ nodes[connections[1].to] = CLASSICAL_HOST
    /\ lastCheck.result

\* The list of k times x.
Times(k, x) == [i \in 1..k |-> x]

\* C16: the connection check takes no matched connection out: a pair
\* required k times is satisfied exactly when it is satisfied once, so by a
\* single connection; the node check takes matched nodes out: a type
\* required k times is satisfied exactly when the canvas holds k nodes of it.
\* A check of a lab that requires one pair k times, or one type k times,
\* returns that.
C16_ConnectionsNotConsumed ==
    /\ \A k \in 1..MaxRequired :
           /\ \A a \in LabTypes, b \in LabTypes :
                  connectionsExist(Times(k, <<a, b>>)) <=> Joined(a, b)
           /\ \A t \in LabTypes :
                  nodesExist(Times(k, t)) <=> CountIn(nodes, {t}) >= k
    /\ (Checked /\ requirements.messages = 0) =>
           LET reqNodes == requirements.nodes
               reqConnections == requirements.connections
           IN  /\ (/\ reqNodes = <<>>
                   /\ reqConnections # <<>>
                   /\ reqConnections
                          = Times(Len(reqConnections), reqConnections[1]))
                      => lastCheck.result = Joined(reqConnections[1][1],
                                                   reqConnections[1][2])
               /\ (/\ reqConnections = <<>>
                   /\ reqNodes # <<>>
                   /\ reqNodes = Times(Len(reqNodes), reqNodes[1]))
                      => lastCheck.result
                             = (CountIn(nodes, {reqNodes[1]})
                                    >= Len(reqNodes))

\* A checked lab that requires the same pair twice and one node, on a
\* canvas whose only connection is of that pair: both required pairs count
\* as fulfilled.
C16_Witness ==
    /\ Checked
    /\ requirements.messages = 0
    /\ Len(requirements.connections) = 2
    /\ requirements.connections[1] = requirements.connections[2]
    /\ Len(requirements.nodes) = 1
    /\ Len(connections) = 1
    /\ lastCheck.completed = 3
    /\ lastCheck.result

\* C17: a lab that requires m messages has its message requirement satisfied
\* exactly when the session's event log holds at least m events, and a lab
\* that requires no messages has it satisfied always: a check never returns
\* true with fewer than m events logged, and a check of a lab that requires
\* nothing but messages returns whether m events are logged.
C17_MessageRequirement ==
    /\ messagesSent(0)
    /\ \A m \in 1..MaxMessages : messagesSent(m) <=> ~(simulationEventLogs < m)
    /\ Checked =>
           /\ (/\ requirements.messages # 0
               /\ simulationEventLogs < requirements.messages)
                  => ~lastCheck.result
           /\ (requirements.nodes = <<>> /\ requirements.connections = <<>>)
                  => lastCheck.result
                         = (\/ requirements.messages = 0
                            \/ simulationEventLogs >= requirements.messages)

\* A checked lab that requires nothing but messages, with exactly the
\* required number of events logged.
C17_Witness ==
    /\ Checked
    /\ requirements.nodes = <<>>
    /\ requirements.connections = <<>>
    /\ requirements.messages > 0
    /\ simulationEventLogs = requirements.messages
    /\ lastCheck.result

\* Every required pair of the lab is joined by some connection.
PairsJoined ==
    \A i \in 1..Len(requirements.connections) :
        Joined(requirements.connections[i][1], requirements.connections[i][2])

\* Messages are required and the event log holds as many.
MessagesMet ==
    requirements.messages # 0 /\ simulationEventLogs >= requirements.messages

\* C18: the progress a check reports has as total the number of required
\* nodes plus the number of required pairs plus 1 if messages are required,
\* and as fulfilled the number of required nodes if all of them are matched
\* (else 0) plus the number of required pairs if all of them are matched
\* (else 0) plus 1 if messages are required and met; the check returns true
\* exactly when fulfilled equals total.
C18_ProgressCounts ==
    Checked =>
        /\ lastCheck.total
               = Len(requirements.nodes) + Len(requirements.connections)
                     + (IF requirements.messages # 0 THEN 1 ELSE 0)
        /\ lastCheck.completed
               = (IF NodesCovered(requirements.nodes)
                  THEN Len(requirements.nodes) ELSE 0)
                     + (IF PairsJoined
                        THEN Len(requirements.connections) ELSE 0)
                     + (IF MessagesMet THEN 1 ELSE 0)
        /\ lastCheck.result <=> lastCheck.completed = lastCheck.total

\* A checked lab with two required nodes of which one is on the canvas, a
\* required pair that is joined and required messages that are met: the
\* nodes count for nothing, the pair and the messages for one each.
C18_Witness ==
    /\ Checked
    /\ Len(requirements.nodes) = 2
    /\ requirements.nodes[1] \in Range(nodes)
    /\ ~NodesCovered(requirements.nodes)
    /\ Len(requirements.connections) = 1
    /\ PairsJoined
    /\ MessagesMet
    /\ lastCheck.completed = 2
    /\ lastCheck.total = 4

\* C19 as stated: an exception raised by a collaborator read during
\* checkLabCompletion is caught inside the function and turned into the safe
\* default, so no call leaves the function with an exception.
C19_ExceptionsCaught == lastCheck.outcome # "threw"

\* The call returned false.
ReturnedFalse(check) == check.outcome = "returned" /\ ~check.result

\* C20: without a canvas, hence without a connection manager, the quick-add
\* computation yields the empty list for every hovered node; a node of an
\* unrecognized type is offered the empty list; checkLabCompletion returns
\* false for a lab id no lab has, and for a known lab when exportToJSON
\* yields no network.
C20_SafeDefaults ==
    /\ \A hovered \in NodeIds \cup {NoNode} :
           /\ compatibleTypesOf(hovered, FALSE) = <<>>
           /\ ~canvasReady => compatibleTypes(hovered) = <<>>
    /\ \A x \in NodeIds :
           nodes[x] \notin SimulationNodeType
               => /\ getCompatibleNextNodeTypes(x) = <<>>
                  /\ compatibleTypes(x) = <<>>
    /\ \A exported \in BOOLEAN, fault \in Faults :
           ReturnedFalse(checkLabCompletion(UnknownLab, exported, fault))
    /\ \A fault \in Faults \ {"exportToJSON"} :
           ReturnedFalse(checkLabCompletion(KnownLab, FALSE, fault))
    /\ (activeLab = UnknownLab /\ lastCheck # NoCheck)
           => ReturnedFalse(lastCheck)

\* A connected node of an unrecognized type on the canvas, with a check of an
\* unknown lab id just made.
C20_Witness ==
    /\ \E x \in NodeIds :
           /\ nodes[x] = UNRECOGNIZED
           /\ Len(getNeighbors(x)) > 0
    /\ activeLab = UnknownLab
    /\ lastCheck.outcome = "returned"

\* C23: in every topology a Quantum Adapter is never offered a Quantum
\* Adapter, a Classical Host or Classical Router is never offered a Quantum
\* Host or Quantum Repeater, a Quantum Host or Quantum Repeater is never
\* offered a Classical Host or Classical Router, and no node is offered a
\* type outside the five governed types.
C23_LayerSeparation ==
    \A x \in NodeIds :
        /\ nodes[x] = QUANTUM_ADAPTER => QUANTUM_ADAPTER \notin Offered(x)
        /\ nodes[x] \in ClassicalTypes => Offered(x) \cap QuantumLinkTypes = {}
        /\ nodes[x] \in QuantumLinkTypes => Offered(x) \cap ClassicalTypes = {}
        /\ Offered(x) \subseteq GovernedTypes

\* A classical node with a Quantum Repeater neighbour, a Quantum Host with a
\* classical neighbour, and a Quantum Adapter that is still offered types.
C23_Witness ==
    /\ \E x \in NodesOfType(ClassicalTypes) :
           QUANTUM_REPEATER \in Range(neighborTypesOf(x))
    /\ \E x \in NodesOfType({QUANTUM_HOST}) :
           /\ Range(neighborTypesOf(x)) \cap ClassicalTypes # {}
           /\ Offered(x) # {}
    /\ \E x \in NodesOfType({QUANTUM_ADAPTER}) : Offered(x) # {}

\* C28: on unconnected nodes the offer relation is symmetric: the type of y
\* is offered to x exactly when the type of x is offered to y.
C28_OfferSymmetric ==
    \A x \in NodeIds, y \in NodeIds :
        (Len(getNeighbors(x)) = 0 /\ Len(getNeighbors(y)) = 0)
            => (nodes[y] \in Offered(x) <=> nodes[x] \in Offered(y))

\* Unconnected nodes of four types on one canvas: a Quantum Repeater and a
\* Quantum Host that offer each other, and a Quantum Adapter and a Zone that
\* do not.
C28_Witness ==
    /\ connections = <<>>
    /\ {QUANTUM_REPEATER, QUANTUM_HOST, QUANTUM_ADAPTER, ZONE}
           \subseteq Range(nodes)

\* The connections that touch node x, those from x to x, and those with x
\* on one side and nothing on the other.
Touching(x) ==
    { i \in 1..Len(connections) :
          connections[i].from = x \/ connections[i].to = x }

Loops(x) ==
    { i \in Touching(x) : connections[i].from = connections[i].to }

Dangling(x) ==
    { i \in Touching(x) :
          connections[i].from = NoNode \/ connections[i].to = NoNode }

\* C24 as stated: the degree of a node is the number of connections touching
\* it, each counted once, also one with a missing endpoint and one from the
\* node to itself.
C24_Original ==
    \A x \in NodeIds : Len(getNeighbors(x)) = Cardinality(Touching(x))

\* C24: the degree of a node is the number of connections touching it, where
\* a connection between the node and another node counts once, a connection
\* from the node to itself counts twice and a connection whose other endpoint
\* is missing does not count.
C24_DegreeCountsNeighbours ==
    \A x \in NodeIds :
        Len(getNeighbors(x))
            = Cardinality(Touching(x)) + Cardinality(Loops(x))
                  - Cardinality(Dangling(x))

\* A node with a connection to itself and a connection whose to side is not
\* set.
C24_Witness ==
    \E x \in NodeIds : Loops(x) # {} /\ Dangling(x) # {}

\* The connections with those of index in S stored the other way round.
SwappedAll(S) ==
    [i \in 1..Len(connections) |->
        IF i \in S THEN [from |-> connections[i].to, to |-> connections[i].from]
                   ELSE connections[i]]

\* C25: storing any subset of the connections the other way round changes
\* what the rule engine offers for no node.
C25_Undirected ==
    \A S \in SUBSET (1..Len(connections)) :
        \A x \in NodeIds :
            getCompatibleNextNodeTypesWith(x, SwappedAll(S))
                = getCompatibleNextNodeTypes(x)

\* A Quantum Adapter or Quantum Host that is the to side of its only
\* complete connection and is offered only its missing side, on a canvas
\* with a second connection.
C25_Witness ==
    /\ Len(connections) = 2
    /\ \E x \in NodesOfType({QUANTUM_ADAPTER, QUANTUM_HOST}) :
           /\ Len(getNeighbors(x)) = 1
           /\ \E i \in 1..2 : /\ connections[i].to = x
                              /\ connections[i].from # x
           /\ Offered(x) # FullSet(nodes[x])

\* C21: the quick-add overlay (button and menu) is shown for the hovered
\* node only when the helper is enabled, the position is known and
\* getCompatibleNextNodeTypes returns a non-empty list for that node; and a
\* step of the overlay that adds a connection starts from the hovered node
\* with the overlay shown and adds a node of an offered type, so a node with
\* an empty list is never the source of a quick-add step.
C21_ButtonOnlyWithOffers ==
    /\ [](showQuickAddButton
              => /\ quickAddHelperEnabled
                 /\ quickAddPosition
                 /\ hoveredNode \in 1..Len(nodes)
                 /\ getCompatibleNextNodeTypes(hoveredNode) # <<>>)
    /\ [][connections' # connections
              => /\ showQuickAddButton
                 /\ nodes' = Append(nodes, nodes'[Len(nodes')])
                 /\ nodes'[Len(nodes')]
                        \in Range(getCompatibleNextNodeTypes(hoveredNode))
                 /\ connections' =
                        Append(connections,
                               [from |-> hoveredNode, to |-> Len(nodes')])]_vars

\* A connected node is hovered with the helper on and the position known,
\* the rule engine offers it nothing, and the overlay is hidden.
C21_Witness ==
    /\ quickAddHelperEnabled
    /\ hoveredNode # NoNode
    /\ quickAddPosition
    /\ Len(getNeighbors(hoveredNode)) > 0
    /\ getCompatibleNextNodeTypes(hoveredNode) = <<>>
    /\ ~showQuickAddButton

C22_MutationsReevaluated ==
    [][(/\ simulatorActiveLab # NoLab
        /\ activeLab # NoLab
        /\ (nodes' # nodes \/ connections' # connections))
           => /\ simulationStateUpdateCount' = simulationStateUpdateCount + 1
              /\ effectPending']_vars

\* The list has no entry twice.
NoDuplicates(list) ==
    \A i, j \in 1..Len(list) : list[i] = list[j] => i = j

\* The list extended has the list as its beginning.
Extends(extended, list) ==
    /\ Len(extended) >= Len(list)
    /\ \A i \in 1..Len(list) : extended[i] = list[i]

C30_RegistrationRetried ==
    /\ [](~callbackRegistered => registerTimer)
    /\ (canvasReady ~> callbackRegistered)
    /\ [](callbackRegistered => ~registerTimer)
    /\ [][callbackRegistered
              => callbackRegistered' /\ ~registerTimer']_vars

\* The callback is registered, no attempt is due, and the callback has
\* since been run for a connection made while a lab was active.
C30_Witness ==
    /\ callbackRegistered
    /\ ~registerTimer
    /\ connections # <<>>
    /\ simulationStateUpdateCount > 0

=============================================================================
